---- MODULE Spec2Model ----
(***************************************************************************)
(* pngme-rs: the 4-byte chunk type (src/src/chunk_type.rs), the chunk      *)
(* codec (src/src/chunk.rs) and the command-line program (src/src/main.rs) *)
(* that loads a PNG file, applies one command and writes the file back.    *)
(*                                                                         *)
(* Bytes are integers 0..255 and byte strings are sequences of them.  A    *)
(* u32 is kept as two 16-bit limbs [hi, lo] (value = hi * 65536 + lo),     *)
(* because the integers of the model checker are 32-bit signed and cannot  *)
(* hold the upper half of the u32 range.                                   *)
(***************************************************************************)
EXTENDS Integers, Sequences, FiniteSets, TLC

VARIABLES pc, arg, ty, flags, buf, ch, res, file, png, out

vars == <<pc, arg, ty, flags, buf, ch, res, file, png, out>>

(***************************************************************************)
(* Bounds of the model.                                                    *)
(***************************************************************************)
\* longest string handed to ChunkType::from_str
MaxStr == 5
\* longest payload of a chunk built by Chunk::new or framed in a buffer
MaxData == 2
\* longest buffer of arbitrary bytes handed to Chunk::try_from
MaxShort == 9
\* most chunks a document grows to
MaxChunks == 3

None == [kind |-> "None"]
Panic == [kind |-> "Panic"]
Ok(v) == [kind |-> "Ok", v |-> v]
Err(e) == [kind |-> "Err", e |-> e]

\* all sequences over S of length 0..n
RECURSIVE SeqsUpTo(_, _)
SeqsUpTo(S, n) ==
  IF n = 0 THEN {<<>>}
  ELSE LET shorter == SeqsUpTo(S, n - 1)
       IN  shorter \cup {Append(q, x) : q \in {r \in shorter : Len(r) = n - 1}, x \in S}

SeqsOfLen(S, n) == {q \in SeqsUpTo(S, n) : Len(q) = n}

RECURSIVE Concat(_)
Concat(qs) == IF qs = <<>> THEN <<>> ELSE Head(qs) \o Concat(Tail(qs))

(***************************************************************************)
(* u32 arithmetic                                                          *)
(***************************************************************************)
\* `n as u32` for a usize n: the low 32 bits
U32(n) == [hi |-> (n \div 65536) % 65536, lo |-> n % 65536]

\* u32::to_be_bytes
to_be_bytes(u) == <<u.hi \div 256, u.hi % 256, u.lo \div 256, u.lo % 256>>

\* u32::from_be_bytes
from_be_bytes(b) == [hi |-> b[1] * 256 + b[2], lo |-> b[3] * 256 + b[4]]

RECURSIVE Xor(_, _)
Xor(a, b) ==
  IF a = 0 THEN b
  ELSE IF b = 0 THEN a
  ELSE ((a + b) % 2) + 2 * Xor(a \div 2, b \div 2)

Xor32(x, y) == [hi |-> Xor(x.hi, y.hi), lo |-> Xor(x.lo, y.lo)]
Not32(x) == [hi |-> 65535 - x.hi, lo |-> 65535 - x.lo]
Shr1(x) == [hi |-> x.hi \div 2, lo |-> (x.lo \div 2) + (x.hi % 2) * 32768]
Shr8(x) == [hi |-> x.hi \div 256, lo |-> (x.lo \div 256) + (x.hi % 256) * 256]

(***************************************************************************)
(* crc::crc32::checksum_ieee (crate crc 1.x): the reflected CRC-32 with    *)
(* polynomial 0xEDB88320, table driven.                                    *)
(***************************************************************************)
IEEE == [hi |-> 60856, lo |-> 33568]

RECURSIVE make_entry(_, _)
make_entry(v, n) ==
  IF n = 0 THEN v
  ELSE make_entry(IF v.lo % 2 = 1 THEN Xor32(Shr1(v), IEEE) ELSE Shr1(v), n - 1)

\* make_table(IEEE): entry i is at index i + 1
RECURSIVE make_table(_, _)
make_table(from, to) ==
  IF from = to THEN <<make_entry(U32(from), 8)>>
  ELSE make_table(from, (from + to) \div 2) \o make_table((from + to) \div 2 + 1, to)

IEEE_TABLE == make_table(0, 255)

RECURSIVE update(_, _)
update(v, bytes) ==
  IF bytes = <<>> THEN v
  ELSE update(Xor32(IEEE_TABLE[Xor(v.lo % 256, Head(bytes)) + 1], Shr8(v)), Tail(bytes))

checksum_ieee(bytes) == Not32(update(Not32(U32(0)), bytes))

(***************************************************************************)
(* chunk_type.rs                                                           *)
(***************************************************************************)
\* u8::is_ascii_uppercase, u8::is_ascii_lowercase, u8::is_ascii_alphabetic
is_ascii_uppercase(b) == b >= 65 /\ b <= 90
is_ascii_lowercase(b) == b >= 97 /\ b <= 122
is_ascii_alphabetic(b) == is_ascii_uppercase(b) \/ is_ascii_lowercase(b)

bytes(chunk_type) == chunk_type.bytes

is_critical(chunk_type) == is_ascii_uppercase(bytes(chunk_type)[1])

\* is_public reading the first byte instead of the second
is_public_first_byte(chunk_type) == is_ascii_uppercase(bytes(chunk_type)[1])

is_public(chunk_type) == is_ascii_uppercase(bytes(chunk_type)[2])

is_reserved_bit_valid(chunk_type) == is_ascii_uppercase(bytes(chunk_type)[3])

is_safe_to_copy(chunk_type) == is_ascii_lowercase(bytes(chunk_type)[4])

is_valid(chunk_type) == is_reserved_bit_valid(chunk_type)

\* ChunkType::to_string: the 4 bytes as a string (a string is its bytes here)
to_string(chunk_type) == bytes(chunk_type)

\* impl TryFrom<[u8; 4]> for ChunkType
ChunkType_try_from(value) ==
  IF \A i \in 1..4 : is_ascii_alphabetic(value[i])
  THEN Ok([bytes |-> value])
  ELSE Err("ExpectAsciiBytes")

\* impl FromStr for ChunkType: the conversion of the string's bytes to [u8; 4]
\* is unwrapped, so any length but 4 panics
from_str(str) ==
  IF Len(str) # 4 THEN Panic ELSE ChunkType_try_from(str)

(***************************************************************************)
(* chunk.rs                                                                *)
(***************************************************************************)
Chunk_new(chunk_type, data) == [chunk_type |-> chunk_type, data |-> data]

\* length counting the type code along with the payload
length_with_type(c) == U32(Len(c.data) + 4)

length(c) == U32(Len(c.data))

\* the checksum input without the type code
type_and_data_bytes_no_type(c) == c.data

type_and_data_bytes(c) == bytes(c.chunk_type) \o c.data

crc(c) == checksum_ieee(type_and_data_bytes(c))

\* u32::to_le_bytes
to_le_bytes(u) == <<u.lo % 256, u.lo \div 256, u.hi % 256, u.hi \div 256>>

\* as_bytes writing both integers little-endian
as_bytes_le(c) ==
  to_le_bytes(length(c)) \o bytes(c.chunk_type) \o c.data \o to_le_bytes(crc(c))

\* as_bytes taking the checksum over the length field as well
as_bytes_crc_of_frame(c) ==
  to_be_bytes(length(c)) \o bytes(c.chunk_type) \o c.data \o
  to_be_bytes(checksum_ieee(to_be_bytes(length(c)) \o type_and_data_bytes(c)))

as_bytes(c) ==
  to_be_bytes(length(c)) \o bytes(c.chunk_type) \o c.data \o to_be_bytes(crc(c))

\* total_len != 4 + 4 + data_len + 4, in usize (64 bits: the sum cannot wrap).
\* A data_len of 2^30 or more is beyond every buffer length of the model.
total_len_differs(total_len, data_len) ==
  IF data_len.hi >= 16384 THEN TRUE
  ELSE total_len # 4 + 4 + (data_len.hi * 65536 + data_len.lo) + 4

\* try_from parsing the type code before it checks the length
Chunk_try_from_type_first(value) ==
  IF Len(value) < 8 THEN Panic
  ELSE
    LET chunk_type == ChunkType_try_from(SubSeq(value, 5, 8))
        data_len == from_be_bytes(SubSeq(value, 1, 4))
        total_len == Len(value)
    IN  IF chunk_type.kind # "Ok" THEN Panic
        ELSE IF total_len_differs(total_len, data_len) THEN Err("LengthMismatch")
        ELSE
          LET data_bytes == SubSeq(value, 9, total_len - 4)
              parsed_crc == from_be_bytes(SubSeq(value, total_len - 3, total_len))
              chunk == [chunk_type |-> chunk_type.v, data |-> data_bytes]
          IN  IF crc(chunk) # parsed_crc THEN Err("CrcMismatch")
              ELSE Ok(chunk)

\* impl TryFrom<&Vec<u8>> for Chunk
Chunk_try_from(value) ==
  IF Len(value) < 4 THEN Panic  \* value[..4]: slice index out of range
  ELSE
    LET data_len == from_be_bytes(SubSeq(value, 1, 4))
        total_len == Len(value)
    IN  IF total_len_differs(total_len, data_len) THEN Err("LengthMismatch")
        ELSE
          LET chunk_type == ChunkType_try_from(SubSeq(value, 5, 8))
          IN  IF chunk_type.kind # "Ok" THEN Panic  \* .unwrap() of an Err
              ELSE
                LET data_bytes == SubSeq(value, 9, total_len - 4)
                    parsed_crc == from_be_bytes(SubSeq(value, total_len - 3, total_len))
                    chunk == [chunk_type |-> chunk_type.v, data |-> data_bytes]
                IN  IF crc(chunk) # parsed_crc THEN Err("CrcMismatch")
                    ELSE Ok(chunk)

(***************************************************************************)
(* Inputs of the codec                                                     *)
(***************************************************************************)
\* 'R', 'u', '1', '[' : an upper-case letter, a lower-case letter, a digit
\* and the symbol right after 'Z'
StrBytes == {82, 117, 49, 91}
TypeBytes == {82, 117, 49}
DataBytes == {0, 255}
ShortBytes == {0, 82}

Strs == SeqsUpTo(StrBytes, MaxStr)
Payloads == SeqsUpTo(DataBytes, MaxData)

\* a length field for payload d: right, one too many, or with the top bit set
LenFields(d) ==
  {to_be_bytes(U32(Len(d))), to_be_bytes(U32(Len(d) + 1)), <<128, 0, 0, Len(d)>>}

\* a checksum field for type t and payload d under length field l: right, off
\* by one in the last bit, or taken over the length field as well
CrcFields(l, t, d) ==
  LET good == to_be_bytes(checksum_ieee(t \o d))
  IN  {good,
       <<good[1], good[2], good[3], Xor(good[4], 1)>>,
       to_be_bytes(checksum_ieee(l \o t \o d))}

Frames ==
  UNION {UNION {{l \o t \o d \o c : c \in CrcFields(l, t, d)} : l \in LenFields(d)} :
           t \in SeqsOfLen(TypeBytes, 4), d \in Payloads}

Buffers == Frames \cup SeqsUpTo(ShortBytes, MaxShort)

(***************************************************************************)
(* The codec as a library: a type code is parsed from a string, queried,   *)
(* made into a chunk and encoded; a buffer (received, or just encoded) is  *)
(* decoded.                                                                *)
(***************************************************************************)
InitCodec ==
  /\ pc = "start"
  /\ arg = <<>>
  /\ ty = None
  /\ flags = None
  /\ buf = <<>>
  /\ ch = None
  /\ res = None
  /\ file = <<>>
  /\ png = None
  /\ out = None

FromStr ==
  /\ pc = "start"
  /\ \E x \in Strs :
       /\ arg' = x
       /\ ty' = from_str(x)
  /\ pc' = "typed"
  /\ UNCHANGED <<flags, buf, ch, res, file, png, out>>

QueryFlags ==
  /\ pc = "typed"
  /\ ty.kind = "Ok"
  /\ flags = None
  /\ flags' = [is_critical |-> is_critical(ty.v),
               is_public |-> is_public(ty.v),
               is_reserved_bit_valid |-> is_reserved_bit_valid(ty.v),
               is_safe_to_copy |-> is_safe_to_copy(ty.v),
               is_valid |-> is_valid(ty.v)]
  /\ UNCHANGED <<pc, arg, ty, buf, ch, res, file, png, out>>

ChunkNew ==
  /\ pc = "typed"
  /\ ty.kind = "Ok"
  /\ \E d \in Payloads : ch' = Chunk_new(ty.v, d)
  /\ pc' = "chunk"
  /\ UNCHANGED <<arg, ty, flags, buf, res, file, png, out>>

AsBytes ==
  /\ pc = "chunk"
  /\ buf' = as_bytes(ch)
  /\ pc' = "encoded"
  /\ UNCHANGED <<arg, ty, flags, ch, res, file, png, out>>

Receive ==
  /\ pc = "start"
  /\ \E b \in Buffers : buf' = b
  /\ pc' = "bytes"
  /\ UNCHANGED <<arg, ty, flags, ch, res, file, png, out>>

TryFrom ==
  /\ pc \in {"bytes", "encoded"}
  /\ res' = Chunk_try_from(buf)
  /\ pc' = "done"
  /\ UNCHANGED <<arg, ty, flags, buf, ch, file, png, out>>

NextCodec == FromStr \/ QueryFlags \/ ChunkNew \/ AsBytes \/ Receive \/ TryFrom

SpecCodec == InitCodec /\ [][NextCodec]_vars

(***************************************************************************)
(* png.rs: the document, a fixed signature and an ordered list of chunks.  *)
(***************************************************************************)
STANDARD_HEADER == <<137, 80, 78, 71, 13, 10, 26, 10>>

\* decode the chunk frames of `rest` in order, after the chunks of `acc`;
\* `decoded` is the outcome of Chunk::try_from on the first frame, of n bytes
RECURSIVE decode_chunks(_, _)
decode_rest(rest, acc, n, decoded) ==
  IF decoded.kind # "Ok" THEN decoded
  ELSE decode_chunks(SubSeq(rest, n + 1, Len(rest)), Append(acc, decoded.v))

decode_chunks(rest, acc) ==
  IF rest = <<>> THEN Ok([chunks |-> acc])
  ELSE IF Len(rest) < 8 THEN Err("FrameTooShort")
  ELSE
    LET data_len == from_be_bytes(SubSeq(rest, 1, 4))
        n == 12 + data_len.hi * 65536 + data_len.lo
    IN  IF data_len.hi >= 16384 \/ Len(rest) < n
        THEN Err("TrailingDataMismatch")
        ELSE decode_rest(rest, acc, n, Chunk_try_from(SubSeq(rest, 1, n)))

Png_try_from(value) ==
  IF Len(value) < 8 \/ SubSeq(value, 1, 8) # STANDARD_HEADER
  THEN Err("SignatureMismatch")
  ELSE decode_chunks(SubSeq(value, 9, Len(value)), <<>>)

Png_as_bytes(p) ==
  STANDARD_HEADER \o Concat([i \in 1..Len(p.chunks) |-> as_bytes(p.chunks[i])])

append_chunk(p, c) == [chunks |-> Append(p.chunks, c)]

\* the positions of the chunks whose type code reads as type_string
matching(p, type_string) ==
  {i \in 1..Len(p.chunks) : to_string(p.chunks[i].chunk_type) = type_string}

first_match(p, type_string) ==
  CHOOSE i \in matching(p, type_string) : \A j \in matching(p, type_string) : i <= j

chunk_by_type(p, type_string) ==
  IF matching(p, type_string) = {} THEN Err("TypeCodeNotFound")
  ELSE Ok(p.chunks[first_match(p, type_string)])

\* the document left and the chunk taken out
remove_chunk(p, type_string) ==
  IF matching(p, type_string) = {} THEN [png |-> p, res |-> Err("TypeCodeNotFound")]
  ELSE
    LET i == first_match(p, type_string)
    IN  [png |-> [chunks |-> SubSeq(p.chunks, 1, i - 1) \o
                             SubSeq(p.chunks, i + 1, Len(p.chunks))],
         res |-> Ok(p.chunks[i])]

(***************************************************************************)
(* main.rs: one run of the program on the file.  Each action is a whole    *)
(* run: the file is read and decoded, the command is applied and, after    *)
(* encode and remove, the file is written again.  `png` is the document in *)
(* memory when the run ends and `out` what the run printed, or Panic.      *)
(* Failures of the file system are not modelled.                           *)
(***************************************************************************)
\* an optional command-line argument: given, or left out
Some(v) == [kind |-> "Some", v |-> v]
NoArg == [kind |-> "NoArg"]

\* "RuSt", "ruSt", "Ru1t", "RuS"
TypeArgs == {<<82, 117, 83, 116>>, <<114, 117, 83, 116>>, <<82, 117, 49, 116>>,
             <<82, 117, 83>>}
\* "", "hi"
Messages == {<<>>, <<104, 105>>}

frame(t, d) == as_bytes(Chunk_new([bytes |-> t], d))

\* the files the program is started on: no chunk, two chunks of one type, a
\* wrong signature, a frame cut short, a wrong checksum, a type code with a digit
InitFiles ==
  {STANDARD_HEADER,
   STANDARD_HEADER \o frame(<<82, 117, 83, 116>>, <<104, 105>>) \o frame(<<82, 117, 83, 116>>, <<>>),
   <<0>> \o STANDARD_HEADER,
   STANDARD_HEADER \o SubSeq(frame(<<82, 117, 83, 116>>, <<104, 105>>), 1, 10),
   STANDARD_HEADER \o <<0, 0, 0, 0, 82, 117, 83, 116, 0, 0, 0, 0>>,
   STANDARD_HEADER \o frame(<<82, 117, 49, 116>>, <<>>)}

Init ==
  /\ pc = "main"
  /\ arg = <<>>
  /\ ty = None
  /\ flags = None
  /\ buf = <<>>
  /\ ch = None
  /\ res = None
  /\ file \in InitFiles
  /\ png = None
  /\ out = None

\* the run dies in a panic: nothing is written
Crash ==
  /\ png' = None
  /\ out' = Panic
  /\ UNCHANGED file

MainEncode ==
  \E loaded \in {Png_try_from(file)} :
    \E chunk_type \in {Some(x) : x \in TypeArgs} \cup {NoArg},
       message \in {Some(x) : x \in Messages} \cup {NoArg} :
        /\ loaded.kind = "Ok" => Len(loaded.v.chunks) < MaxChunks
        /\ IF \/ loaded.kind # "Ok"
              \/ chunk_type = NoArg
              \/ from_str(chunk_type.v).kind # "Ok"
              \/ message = NoArg
           THEN Crash
           ELSE /\ png' = append_chunk(loaded.v, Chunk_new(from_str(chunk_type.v).v, message.v))
                /\ out' = [kind |-> "Encoded"]
                /\ file' = Png_as_bytes(png')
        /\ UNCHANGED <<pc, arg, ty, flags, buf, ch, res>>

MainDecode ==
  \E loaded \in {Png_try_from(file)} :
    \E chunk_type \in {Some(x) : x \in TypeArgs} \cup {NoArg} :
        /\ IF \/ loaded.kind # "Ok"
              \/ chunk_type = NoArg
              \/ chunk_by_type(loaded.v, chunk_type.v).kind # "Ok"
           THEN Crash
           ELSE /\ png' = loaded.v
                /\ out' = [kind |-> "Chunk", t |-> chunk_type.v,
                           chunk |-> chunk_by_type(loaded.v, chunk_type.v).v]
                /\ UNCHANGED file
        /\ UNCHANGED <<pc, arg, ty, flags, buf, ch, res>>

\* the remove command looking the chunk up without taking it out
MainRemoveKeeps ==
  \E loaded \in {Png_try_from(file)} :
    \E chunk_type \in {Some(x) : x \in TypeArgs} \cup {NoArg} :
        /\ IF \/ loaded.kind # "Ok"
              \/ chunk_type = NoArg
              \/ chunk_by_type(loaded.v, chunk_type.v).kind # "Ok"
           THEN Crash
           ELSE /\ png' = loaded.v
                /\ out' = [kind |-> "Removed", t |-> chunk_type.v,
                           chunk |-> chunk_by_type(loaded.v, chunk_type.v).v]
                /\ file' = Png_as_bytes(png')
        /\ UNCHANGED <<pc, arg, ty, flags, buf, ch, res>>

MainRemove ==
  \E loaded \in {Png_try_from(file)} :
    \E chunk_type \in {Some(x) : x \in TypeArgs} \cup {NoArg} :
        /\ IF \/ loaded.kind # "Ok"
              \/ chunk_type = NoArg
              \/ remove_chunk(loaded.v, chunk_type.v).res.kind # "Ok"
           THEN Crash
           ELSE /\ png' = remove_chunk(loaded.v, chunk_type.v).png
                /\ out' = [kind |-> "Removed", t |-> chunk_type.v,
                           chunk |-> remove_chunk(loaded.v, chunk_type.v).res.v]
                /\ file' = Png_as_bytes(png')
        /\ UNCHANGED <<pc, arg, ty, flags, buf, ch, res>>

MainPrint ==
  \E loaded \in {Png_try_from(file)} :
      /\ IF loaded.kind # "Ok"
         THEN Crash
         ELSE /\ png' = loaded.v
              /\ out' = [kind |-> "Png"]
              /\ UNCHANGED file
      /\ UNCHANGED <<pc, arg, ty, flags, buf, ch, res>>

Next == MainEncode \/ MainDecode \/ MainRemove \/ MainPrint

Spec == Init /\ [][Next]_vars

(***************************************************************************)
(* Properties.  Their vocabulary is stated apart from the model above: the *)
(* letters, the big-endian form of a small number, the fields of a frame.  *)
(***************************************************************************)
IsUpper(b) == b \in 65..90
IsLower(b) == b \in 97..122
IsLetter(b) == IsUpper(b) \/ IsLower(b)

\* the error kinds of the specification, as the code names them
InvalidTypeCode == Err("ExpectAsciiBytes")
ChecksumMismatch == Err("CrcMismatch")
LengthMismatch == Err("LengthMismatch")
FrameTooShort == Err("FrameTooShort")
TypeCodeNotFound == Err("TypeCodeNotFound")

\* n < 2^31 as a big-endian 32-bit integer
BE32(n) == <<n \div 16777216, (n \div 65536) % 256, (n \div 256) % 256, n % 256>>

LengthField(b) == SubSeq(b, 1, 4)
TypeField(b) == SubSeq(b, 5, 8)
PayloadField(b) == SubSeq(b, 9, Len(b) - 4)
ChecksumField(b) == SubSeq(b, Len(b) - 3, Len(b))

\* the length field of b agrees with the length of b
ConsistentLength(b) == Len(b) >= 12 /\ LengthField(b) = BE32(Len(b) - 12)
AlphabeticType(b) == \A i \in 1..4 : IsLetter(TypeField(b)[i])

\* a buffer was handed to Chunk::try_from from outside, and decoded
DecodedInput == pc = "done" /\ ch = None
\* a chunk built by Chunk::new was encoded, and its bytes decoded
DecodedOwn == pc = "done" /\ ch # None

\* C1: the bytes as_bytes makes of a chunk built by Chunk::new from a valid
\* type code decode, by Chunk::try_from, to a chunk with the same type code
\* bytes and the same payload.
ChunkRoundTrip ==
  DecodedOwn =>
    /\ res.kind = "Ok"
    /\ bytes(res.v.chunk_type) = bytes(ch.chunk_type)
    /\ res.v.data = ch.data

ChunkRoundTripWitness ==
  DecodedOwn /\ Len(ch.data) >= 2 /\ res.kind = "Ok"

\* C3: decoding a buffer with a consistent length field and a type field that
\* holds a byte that is no letter returns the error InvalidTypeCode.
InvalidTypeCodeReturned ==
  (DecodedInput /\ ConsistentLength(buf) /\ ~AlphabeticType(buf)) =>
    res = InvalidTypeCode

\* C4: decoding a buffer of fewer than 8 bytes returns the error FrameTooShort.
ShortBufferReturnsFrameTooShort ==
  (DecodedInput /\ Len(buf) < 8) => res = FrameTooShort

\* C5: ChunkType::from_str succeeds exactly on the strings of 4 bytes that
\* are all letters, and returns the error InvalidTypeCode on every other.
FromStrReturnsOkOrInvalidTypeCode ==
  pc = "typed" =>
    IF Len(arg) = 4 /\ \A i \in 1..4 : IsLetter(arg[i])
    THEN ty.kind = "Ok" /\ bytes(ty.v) = arg
    ELSE ty = InvalidTypeCode

\* C6: a buffer with a consistent length field and a type code of letters
\* decodes exactly when its last 4 bytes are the big-endian CRC-32 of the
\* type code bytes followed by the payload bytes; otherwise the outcome is
\* ChecksumMismatch.
ChecksumVerified ==
  (DecodedInput /\ ConsistentLength(buf) /\ AlphabeticType(buf)) =>
    IF ChecksumField(buf) = to_be_bytes(checksum_ieee(TypeField(buf) \o PayloadField(buf)))
    THEN /\ res.kind = "Ok"
         /\ bytes(res.v.chunk_type) = TypeField(buf)
         /\ res.v.data = PayloadField(buf)
    ELSE res = ChecksumMismatch

\* a frame whose checksum was taken over the length field as well is refused
ChecksumVerifiedWitness ==
  /\ DecodedInput /\ ConsistentLength(buf) /\ AlphabeticType(buf)
  /\ Len(buf) > 12
  /\ ChecksumField(buf) =
       to_be_bytes(checksum_ieee(LengthField(buf) \o TypeField(buf) \o PayloadField(buf)))
  /\ res = ChecksumMismatch

\* C7 as claimed: each of the four flags is true exactly when its byte is
\* upper case, is_safe_to_copy (byte 3) included; is_valid is
\* is_reserved_bit_valid.
FlagsAllUppercase ==
  flags # None =>
    /\ flags.is_critical = IsUpper(arg[1])
    /\ flags.is_public = IsUpper(arg[2])
    /\ flags.is_reserved_bit_valid = IsUpper(arg[3])
    /\ flags.is_safe_to_copy = IsUpper(arg[4])
    /\ flags.is_valid = flags.is_reserved_bit_valid

\* C7 as amended: is_critical, is_public and is_reserved_bit_valid are true
\* exactly when bytes 0, 1 and 2 are upper case; is_safe_to_copy is true
\* exactly when byte 3 is lower case; is_valid is is_reserved_bit_valid.
FlagsFollowCase ==
  flags # None =>
    /\ flags.is_critical = IsUpper(arg[1])
    /\ flags.is_public = IsUpper(arg[2])
    /\ flags.is_reserved_bit_valid = IsUpper(arg[3])
    /\ flags.is_safe_to_copy = IsLower(arg[4])
    /\ flags.is_valid = flags.is_reserved_bit_valid

\* the flags of "RuuR": critical, not public, reserved bit invalid, unsafe to copy
FlagsFollowCaseWitness ==
  /\ flags # None
  /\ arg = <<82, 117, 117, 82>>
  /\ flags.is_critical /\ ~flags.is_public /\ ~flags.is_valid /\ ~flags.is_safe_to_copy

\* C9: a buffer of 8 bytes or more whose length is not 12 plus its length
\* field is refused with LengthMismatch, whatever its type code and checksum.
LengthChecked ==
  (DecodedInput /\ Len(buf) >= 8 /\ ~ConsistentLength(buf)) => res = LengthMismatch

\* a wrong length, a digit in the type code and a wrong checksum at once
LengthCheckedWitness ==
  /\ DecodedInput /\ Len(buf) >= 12 /\ ~ConsistentLength(buf)
  /\ ~AlphabeticType(buf)
  /\ ChecksumField(buf) # to_be_bytes(checksum_ieee(TypeField(buf) \o PayloadField(buf)))
  /\ res = LengthMismatch

\* C10: as_bytes returns 12 + length() bytes: the payload length big-endian,
\* the 4 type code bytes, the payload, then crc() big-endian; length() is the
\* number of payload bytes.
WireLayout ==
  (pc = "encoded") =>
    LET n == Len(ch.data)
    IN  /\ length(ch).hi * 65536 + length(ch).lo = n
        /\ Len(buf) = 12 + n
        /\ LengthField(buf) = BE32(n)
        /\ TypeField(buf) = bytes(ch.chunk_type)
        /\ PayloadField(buf) = ch.data
        /\ ChecksumField(buf) = <<crc(ch).hi \div 256, crc(ch).hi % 256,
                                  crc(ch).lo \div 256, crc(ch).lo % 256>>

WireLayoutWitness ==
  pc = "encoded" /\ Len(ch.data) = 2 /\ ch.data[1] # ch.data[2] /\ Len(buf) = 14

\* C2: the document a run ends with, decoded from the file and then grown or
\* shrunk by one command or not, encodes to bytes that start with the
\* signature and decode to the same chunks in the same order.
DocumentRoundTrip ==
  png # None =>
    LET encoded == Png_as_bytes(png)
        again == Png_try_from(encoded)
    IN  /\ SubSeq(encoded, 1, 8) = STANDARD_HEADER
        /\ again.kind = "Ok"
        /\ Len(again.v.chunks) = Len(png.chunks)
        /\ \A i \in 1..Len(png.chunks) :
             /\ bytes(again.v.chunks[i].chunk_type) = bytes(png.chunks[i].chunk_type)
             /\ again.v.chunks[i].data = png.chunks[i].data

\* a document of two different chunks, left by a remove, written to the file
DocumentRoundTripWitness ==
  /\ png # None
  /\ out.kind = "Removed"
  /\ Len(png.chunks) = 2
  /\ png.chunks[1] # png.chunks[2]
  /\ file = Png_as_bytes(png)

\* C8 as claimed: whenever remove_chunk(t) succeeds, chunk_by_type(t) right
\* after it fails with TypeCodeNotFound, and the chunk returned is of type t.
RemoveThenLookupFails ==
  out.kind = "Removed" =>
    /\ to_string(out.chunk.chunk_type) = out.t
    /\ chunk_by_type(png, out.t) = TypeCodeNotFound

\* C8 as amended: whenever remove_chunk(t) succeeds it returns the first
\* chunk of type t, payload included, and leaves the other chunks in their
\* order; chunk_by_type(t) right after it fails with TypeCodeNotFound exactly
\* when the document held no other chunk of type t, and otherwise returns
\* the next chunk of type t.
RemoveTakesFirstOfType ==
  [][out'.kind = "Removed" =>
       LET before == Png_try_from(file).v.chunks
           t == out'.t
           hits == {i \in 1..Len(before) : bytes(before[i].chunk_type) = t}
       IN  /\ hits # {}
           /\ \E i \in hits :
                /\ \A j \in hits : i <= j
                /\ out'.chunk = before[i]
                /\ Len(png'.chunks) = Len(before) - 1
                /\ \A k \in 1..Len(png'.chunks) :
                     png'.chunks[k] = IF k < i THEN before[k] ELSE before[k + 1]
                /\ IF hits = {i}
                   THEN chunk_by_type(png', t) = TypeCodeNotFound
                   ELSE \E j \in hits \ {i} :
                          /\ \A k \in hits \ {i} : j <= k
                          /\ chunk_by_type(png', t) = Ok(before[j])]_vars

\* a remove of the first of two chunks of one type: the lookup finds the other
RemoveTakesFirstOfTypeWitness ==
  /\ out.kind = "Removed"
  /\ out.chunk.data # <<>>
  /\ chunk_by_type(png, out.t).kind = "Ok"
  /\ chunk_by_type(png, out.t).v # out.chunk

====
